---- MODULE Spec2Model ----
(***************************************************************************)
(* Model of the pricing tools of revman (src/src/revman/tools).            *)
(*                                                                         *)
(* Numbers.  Prices are whole cents (integers); a percentage is kept in    *)
(* hundredths of a percent (the two decimals the tools round to).  The     *)
(* ratio tests of the categorizer are evaluated exactly on the cents, the  *)
(* double-precision rounding of Python's division is not modelled.         *)
(* A spreadsheet cell is a record [k, v]: a number, a non-numeric string   *)
(* (such as "N/A" or "Delisted") or an empty cell (None / NaN).            *)
(***************************************************************************)
EXTENDS Integers, Sequences, FiniteSets, TLC

VARIABLES
    price_file,             \* the price change Excel file given to the categorizer
    cat_result,             \* what PriceCategorizationTool._run returned last
    price_categories_json,  \* data/output/price_categories.json
    hist_file,              \* the historical price Excel file given to the analyzer
    hist_result,            \* what HistoricalPriceAnalysisTool._run returned last
    historical_analysis_results_json,   \* data/output/historical_analysis_results.json
    forecast_result,        \* what PriceForecastingTool._run returned last
    price_forecasts_json,   \* data/output/price_forecasts.json
    anomaly_result,         \* what AnomalyDetectionTool._run returned last
    pricing_anomalies_json, \* data/output/pricing_anomalies.json
    cleaner_data,           \* the data argument of the last DataCleanerTool._run
    cleaner_result,         \* what DataCleanerTool._run returned last
    calc_result,            \* what PriceCalculatorTool._run returned last
    method_outputs,         \* the methods of RevManFlow that have returned, in order
    flow_failed,            \* an exception has left RevManFlow.kickoff
    email_content,          \* RevManFlow._email_content: the phrases it contains
    validation_report,      \* RevManFlow._validation_report
    validation_passed,      \* RevManFlow._validation_passed
    email_txt,              \* data/output/price_change_email_<date>.txt
    metadata_json,          \* data/output/price_change_email_<date>_metadata.json
    validation_json,        \* data/output/price_change_email_<date>_validation.json
    flow_output             \* the FlowOutput that kickoff returned

cat_vars == <<price_file, cat_result, price_categories_json>>
hist_vars == <<hist_file, hist_result, historical_analysis_results_json>>
forecast_vars == <<forecast_result, price_forecasts_json>>
anomaly_vars == <<anomaly_result, pricing_anomalies_json>>
excel_vars == <<cleaner_data, cleaner_result, calc_result>>
flow_vars == <<method_outputs, flow_failed, email_content, validation_report,
               validation_passed, email_txt, metadata_json, validation_json, flow_output>>
vars == <<cat_vars, hist_vars, forecast_vars, anomaly_vars, excel_vars, flow_vars>>

(***************************************************************************)
(* Bounds of the model                                                     *)
(***************************************************************************)
MaxRows == 2
MaxHistRows == 3
MaxChanges == 9
MaxZeroPriceChanges == 3
MaxSkus == 12
MaxRecords == 3
MaxCalcPrice == 30

(***************************************************************************)
(* Cells                                                                   *)
(***************************************************************************)
Num(n) == [k |-> "num", v |-> n]
StrCell == [k |-> "str", v |-> 0]
NullCell == [k |-> "null", v |-> 0]

NoFile == [exists |-> FALSE]

\* An artifact opened with open(output_file, 'w') whose json.dump raised: it
\* is empty or ends in the middle of the document
Truncated == [exists |-> TRUE, kind |-> "truncated"]
NoResult == [kind |-> "none"]

\* The Excel tools before their first call
ExcelToolsUnused ==
    /\ cleaner_data = NoResult
    /\ cleaner_result = NoResult
    /\ calc_result = NoResult

\* RevManFlow after __init__, with an output directory that holds no email
FlowConstructed ==
    /\ method_outputs = <<>>
    /\ flow_failed = FALSE
    /\ email_content = {}
    /\ validation_report = NoResult
    /\ validation_passed = FALSE
    /\ email_txt = NoFile
    /\ metadata_json = NoFile
    /\ validation_json = NoFile
    /\ flow_output = NoResult

\* The strings the categorizer compares the sale type with.  The second
\* retail spelling stands for the one written with an en dash.
LICENSEE == "TBS - Licensee"
NEW_SKU == "New SKU"
RETAIL_EN_DASH == "TBS -- Retail Price"
RETAIL_HYPHEN == "TBS - Retail Price"

SaleTypes ==
    {LICENSEE, NEW_SKU, RETAIL_EN_DASH, RETAIL_HYPHEN, "TBS - Wholesale", " New SKU "}

OldPriceCells == {Num(0), Num(25), StrCell}
NewPriceCells == {Num(23), Num(24), Num(25), Num(26), Num(27), StrCell}

cat_required_cols == {"Product Name", "Pack Size", "Type of Sale", "Old Price", "New Price"}

\* str(value).strip() on the sale types of the model
Strip(s) == IF s = " New SKU " THEN NEW_SKU ELSE s

\* safe_float(value, default=0.0)
safe_float(value) == IF value.k = "num" THEN value.v ELSE 0

\* round(x, 2) of the non-negative quotient a / b given in units of 1/100
Round2(a, b) == (2 * a + b) \div (2 * b)

\* df.dropna(how='all')
RECURSIVE dropna_all(_)
dropna_all(rows) ==
    IF rows = <<>> THEN <<>>
    ELSE IF \A c \in DOMAIN Head(rows) : Head(rows)[c].k = "null"
         THEN dropna_all(Tail(rows))
         ELSE <<Head(rows)>> \o dropna_all(Tail(rows))

EmptyCategories ==
    [licensee_changes |-> <<>>, new_skus |-> <<>>, permanent_changes |-> <<>>,
     begin_lto |-> <<>>, end_lto |-> <<>>]

product_entry(row) ==
    [product |-> row["Product Name"],
     old_price |-> safe_float(row["Old Price"]),
     new_price |-> safe_float(row["New Price"]),
     price_change |-> safe_float(row["New Price"]) - safe_float(row["Old Price"])]

\* if price_ratio < 96 / elif price_ratio > 104 / else, on the exact ratio
\* new_price / old_price * 100 (old_price > 0)
ratio_category_inclusive(old_price, new_price) ==
    IF new_price * 100 <= 96 * old_price THEN "begin_lto"
    ELSE IF new_price * 100 >= 104 * old_price THEN "end_lto"
    ELSE "permanent_changes"

ratio_category(old_price, new_price) ==
    IF new_price * 100 < 96 * old_price THEN "begin_lto"
    ELSE IF new_price * 100 > 104 * old_price THEN "end_lto"
    ELSE "permanent_changes"

\* The if / elif chain on type_of_sale: the list the row is appended to, or
\* "none" when no branch is taken
category_of_price_first(type_of_sale, old_price, new_price) ==
    IF old_price > 0 /\ ratio_category(old_price, new_price) # "permanent_changes"
    THEN ratio_category(old_price, new_price)
    ELSE IF type_of_sale = LICENSEE THEN "licensee_changes"
    ELSE IF type_of_sale = NEW_SKU THEN "new_skus"
    ELSE IF type_of_sale = RETAIL_EN_DASH \/ type_of_sale = RETAIL_HYPHEN
    THEN "permanent_changes"
    ELSE "none"

category_of_zero_ratio(type_of_sale, old_price, new_price) ==
    IF type_of_sale = LICENSEE THEN "licensee_changes"
    ELSE IF type_of_sale = NEW_SKU THEN "new_skus"
    ELSE IF type_of_sale = RETAIL_EN_DASH \/ type_of_sale = RETAIL_HYPHEN
    THEN IF old_price > 0 THEN ratio_category(old_price, new_price)
         ELSE "begin_lto"
    ELSE "none"

category_of(type_of_sale, old_price, new_price) ==
    IF type_of_sale = LICENSEE THEN "licensee_changes"
    ELSE IF type_of_sale = NEW_SKU THEN "new_skus"
    ELSE IF type_of_sale = RETAIL_EN_DASH \/ type_of_sale = RETAIL_HYPHEN
    THEN IF old_price > 0 THEN ratio_category(old_price, new_price)
         ELSE "permanent_changes"
    ELSE "none"

\* One iteration of the loop "for idx, row in df.iterrows()"
categorize_row(cats, row) ==
    LET type_of_sale == Strip(row["Type of Sale"])
        old_price == safe_float(row["Old Price"])
        new_price == safe_float(row["New Price"])
        entry == product_entry(row)
        category == category_of(type_of_sale, old_price, new_price)
        is_retail == type_of_sale = RETAIL_EN_DASH \/ type_of_sale = RETAIL_HYPHEN
    IN  IF category = "none" THEN cats
        ELSE IF ~is_retail THEN [cats EXCEPT ![category] = Append(@, entry)]
        ELSE IF old_price > 0
        THEN [cats EXCEPT ![category] =
                 Append(@, [product |-> entry.product, old_price |-> entry.old_price,
                            new_price |-> entry.new_price,
                            price_change |-> entry.price_change,
                            price_ratio_pct |-> Round2(new_price * 10000, old_price)])]
        ELSE [cats EXCEPT ![category] =
                 Append(@, [product |-> entry.product, old_price |-> entry.old_price,
                            new_price |-> entry.new_price,
                            price_change |-> entry.price_change,
                            price_ratio_pct |-> 0,
                            note |-> "Zero old price - categorized as permanent change"])]

RECURSIVE categorize_rows(_, _)
categorize_rows(cats, rows) ==
    IF rows = <<>> THEN cats
    ELSE categorize_rows(categorize_row(cats, Head(rows)), Tail(rows))

\* The value PriceCategorizationTool._run returns for a file
categorize(file) ==
    IF ~file.exists
    THEN [kind |-> "error", error |-> "Error categorizing prices"]
    ELSE LET df == dropna_all(file.rows)
             missing_cols == cat_required_cols \ file.columns
         IN  IF missing_cols # {}
             THEN [kind |-> "error", error |-> "Missing required columns",
                   missing |-> missing_cols, available_columns |-> file.columns]
             ELSE LET cats == categorize_rows(EmptyCategories, df)
                  IN  [kind |-> "ok",
                       licensee_changes |-> cats.licensee_changes,
                       new_skus |-> cats.new_skus,
                       permanent_changes |-> cats.permanent_changes,
                       begin_lto |-> cats.begin_lto,
                       end_lto |-> cats.end_lto,
                       total_products |-> Len(df),
                       categorization_summary |->
                           [licensee_changes_count |-> Len(cats.licensee_changes),
                            new_skus_count |-> Len(cats.new_skus),
                            permanent_changes_count |-> Len(cats.permanent_changes),
                            begin_lto_count |-> Len(cats.begin_lto),
                            end_lto_count |-> Len(cats.end_lto)]]

(***************************************************************************)
(* The price change file, as its producer writes it                        *)
(***************************************************************************)
\* The rows a file with the given columns can hold.  The product name of a
\* row is its position in the file (product names are unique in a report).
PriceRows(columns, n) ==
    IF "Old Price" \in columns
    THEN {[c \in cat_required_cols |-> NullCell]} \cup
         {[c \in cat_required_cols |->
              CASE c = "Product Name" -> Num(n)
                [] c = "Pack Size" -> StrCell
                [] c = "Type of Sale" -> t
                [] c = "Old Price" -> o
                [] c = "New Price" -> w] :
            t \in SaleTypes, o \in OldPriceCells, w \in NewPriceCells}
    ELSE {[c \in columns |->
              CASE c = "Product Name" -> Num(n)
                [] c = "Pack Size" -> StrCell
                [] c = "Type of Sale" -> t
                [] c = "New Price" -> w] :
            t \in {LICENSEE, RETAIL_HYPHEN}, w \in {Num(24), StrCell}}

CreatePriceFile ==
    /\ ~price_file.exists
    /\ cat_result = NoResult
    /\ \E columns \in {cat_required_cols, cat_required_cols \ {"Old Price"}} :
          price_file' = [exists |-> TRUE, columns |-> columns, rows |-> <<>>]
    /\ UNCHANGED <<cat_result, price_categories_json, hist_vars, forecast_vars, anomaly_vars, excel_vars, flow_vars>>

AppendPriceRow ==
    /\ price_file.exists
    /\ cat_result = NoResult
    /\ Len(price_file.rows) < MaxRows
    /\ \E row \in PriceRows(price_file.columns, Len(price_file.rows) + 1) :
          price_file' = [price_file EXCEPT !.rows = Append(@, row)]
    /\ UNCHANGED <<cat_result, price_categories_json, hist_vars, forecast_vars, anomaly_vars, excel_vars, flow_vars>>

(***************************************************************************)
(* PriceCategorizationTool._run(file_path)                                 *)
(***************************************************************************)
PriceCategorizationTool_run ==
    /\ cat_result = NoResult
    /\ cat_result' = categorize(price_file)
    /\ price_categories_json' =
          IF cat_result'.kind = "ok" THEN cat_result' ELSE price_categories_json
    /\ UNCHANGED <<price_file, hist_vars, forecast_vars, anomaly_vars, excel_vars, flow_vars>>

Init ==
    /\ price_file = NoFile
    /\ cat_result = NoResult
    /\ price_categories_json = NoFile
    /\ hist_file = NoFile
    /\ hist_result = NoResult
    /\ historical_analysis_results_json = NoFile
    /\ forecast_result = NoResult
    /\ price_forecasts_json = NoFile
    /\ anomaly_result = NoResult
    /\ pricing_anomalies_json = NoFile
    /\ ExcelToolsUnused
    /\ FlowConstructed

NextCat == CreatePriceFile \/ AppendPriceRow \/ PriceCategorizationTool_run

SpecCat == Init /\ [][NextCat]_vars

(***************************************************************************)
(* HistoricalPriceAnalysisTool                                             *)
(*                                                                         *)
(* A SKU is the ordinal of its identifier and a week the ordinal of its    *)
(* date, so that both sort as in the table.  A percentage change is a      *)
(* record [k, v]: a finite float (v in hundredths of a percent), +inf      *)
(* (a price after a price of 0), NaN (0 after 0, or the first row) or,     *)
(* once sanitized, None.                                                   *)
(***************************************************************************)
hist_required_cols == {"SKU", "BRAND", "Pack Size", "Pack Volume ml", "Pack Type", "Week", "Price"}

Skus == {1, 2}
WeekCells == {Num(1), Num(2), Num(3), StrCell}
PriceCells == {Num(0), Num(10), Num(20), StrCell}

Fin(v) == [k |-> "fin", v |-> v]
Inf == [k |-> "inf", v |-> 0]
NaN == [k |-> "nan", v |-> 0]
None == [k |-> "none", v |-> 0]
NaT == [k |-> "nat", v |-> 0]

\* pd.to_datetime(value, errors='coerce')
to_datetime(value) == IF value.k = "num" THEN Fin(value.v) ELSE NaT

\* pd.to_numeric(value, errors='coerce')
to_numeric_zero(value) == IF value.k = "num" THEN Fin(value.v) ELSE Fin(0)

to_numeric(value) == IF value.k = "num" THEN Fin(value.v) ELSE NaN

\* Lines 118-124: both conversions, then df.dropna(subset=['Week', 'Price'])
RECURSIVE parse_and_dropna(_)
parse_and_dropna(rows) ==
    IF rows = <<>> THEN <<>>
    ELSE LET week == to_datetime(Head(rows)["Week"])
             price == to_numeric(Head(rows)["Price"])
         IN  IF week = NaT \/ price = NaN
             THEN parse_and_dropna(Tail(rows))
             ELSE <<[SKU |-> Head(rows)["SKU"].v, Week |-> week.v, Price |-> price.v]>>
                      \o parse_and_dropna(Tail(rows))

\* df.sort_values(['SKU', 'Week']): a stable sort on the two keys
key_le(a, b) == a.SKU < b.SKU \/ (a.SKU = b.SKU /\ a.Week <= b.Week)

RECURSIVE insert_sorted(_, _)
insert_sorted(row, sorted) ==
    IF sorted = <<>> THEN <<row>>
    ELSE IF key_le(Head(sorted), row)
         THEN <<Head(sorted)>> \o insert_sorted(row, Tail(sorted))
         ELSE <<row>> \o sorted

RECURSIVE sort_values_by_sku_only(_)
sort_values_by_sku_only(rows) ==
    IF rows = <<>> THEN <<>>
    ELSE LET rest == sort_values_by_sku_only(SubSeq(rows, 1, Len(rows) - 1))
             row == rows[Len(rows)]
         IN  SelectSeq(rest, LAMBDA r : r.SKU <= row.SKU) \o <<row>>
                 \o SelectSeq(rest, LAMBDA r : r.SKU > row.SKU)

RECURSIVE sort_values(_)
sort_values(rows) ==
    IF rows = <<>> THEN <<>>
    ELSE insert_sorted(rows[Len(rows)], sort_values(SubSeq(rows, 1, Len(rows) - 1)))

\* df['SKU'].unique(): the SKUs in order of first appearance
RECURSIVE unique_skus(_)
unique_skus(rows) ==
    IF rows = <<>> THEN <<>>
    ELSE LET rest == unique_skus(SubSeq(rows, 1, Len(rows) - 1))
             sku == rows[Len(rows)].SKU
         IN  IF \E i \in DOMAIN rest : rest[i] = sku THEN rest ELSE Append(rest, sku)

\* One element of Series.pct_change() * 100: (cur / prev - 1) * 100
pct_change_of(prev, cur) ==
    IF prev = 0
    THEN IF cur = 0 THEN NaN ELSE Inf
    ELSE Fin(((cur - prev) * 10000) \div prev)

\* sku_data['Price'].pct_change() * 100, the first row having no change
pct_change(sku_data) ==
    [i \in DOMAIN sku_data |->
        IF i = 1 THEN NaN ELSE pct_change_of(sku_data[i - 1].Price, sku_data[i].Price)]

\* Series.dropna()
dropna(series) == SelectSeq(series, LAMBDA c : c # NaN)

\* sanitize_float(value)
sanitize_float(value) ==
    IF value = NaN THEN Fin(0)
    ELSE IF value = Inf THEN None
    ELSE value

\* sanitize_list(values)
sanitize_list(values) == [i \in DOMAIN values |-> sanitize_float(values[i])]

\* strftime('%Y-%m-%d') of a week: weeks are whole dates, written one-to-one
strftime(week) == week

\* The floats of the statistics that are no whole hundredths of a percent:
\* the quotient n / d, and the square root of n / d (d > 0)
Quot(n, d) == [k |-> "quot", v |-> <<n, d>>]
Root(n, d) == [k |-> "root", v |-> <<n, d>>]

RECURSIVE SumOfChanges(_)
SumOfChanges(changes) ==
    IF changes = <<>> THEN 0 ELSE Head(changes).v + SumOfChanges(Tail(changes))

RECURSIVE SumOfSquares(_)
SumOfSquares(changes) ==
    IF changes = <<>> THEN 0
    ELSE Head(changes).v * Head(changes).v + SumOfSquares(Tail(changes))

HasInf(changes) == \E i \in DOMAIN changes : changes[i] = Inf

\* Series.mean(): the sum over the count; +inf as soon as one change is +inf
series_mean(changes) ==
    IF changes = <<>> THEN NaN
    ELSE IF HasInf(changes) THEN Inf
    ELSE Quot(SumOfChanges(changes), Len(changes))

\* Series.std(), the sample standard deviation (ddof = 1): NaN for a single
\* change and when a change is +inf (inf - inf)
series_std(changes) ==
    IF Len(changes) < 2 \/ HasInf(changes) THEN NaN
    ELSE LET n == Len(changes)
             ssd_n == n * SumOfSquares(changes)
                          - SumOfChanges(changes) * SumOfChanges(changes)
         IN  IF ssd_n = 0 THEN Fin(0) ELSE Root(ssd_n, n * (n - 1))

\* Series.min() and Series.max(), +inf being the greatest value
series_min(changes) ==
    IF changes = <<>> THEN NaN
    ELSE IF \A i \in DOMAIN changes : changes[i] = Inf THEN Inf
    ELSE CHOOSE c \in {changes[i] : i \in DOMAIN changes} :
             /\ c # Inf
             /\ \A i \in DOMAIN changes : changes[i] = Inf \/ c.v <= changes[i].v

series_max(changes) ==
    IF changes = <<>> THEN NaN
    ELSE IF HasInf(changes) THEN Inf
    ELSE CHOOSE c \in {changes[i] : i \in DOMAIN changes} :
             \A i \in DOMAIN changes : c.v >= changes[i].v

\* The dict assigned to sku_analysis[sku] (the descriptive fields brand and
\* pack are left out), with its key
sku_entry(sku, total_weeks, price_changes, latest_price, latest_week) ==
    [sku |-> sku,
     total_weeks |-> total_weeks,
     total_changes |-> Len(price_changes),
     mean_change_pct |-> sanitize_float(series_mean(price_changes)),
     std_change_pct |-> sanitize_float(series_std(price_changes)),
     min_change_pct |-> sanitize_float(series_min(price_changes)),
     max_change_pct |-> sanitize_float(series_max(price_changes)),
     latest_price |-> sanitize_float(Fin(latest_price)),
     latest_week |-> strftime(latest_week),
     all_changes |-> sanitize_list(price_changes)]

\* The body of the loop "for sku in df['SKU'].unique()": the entries (none or
\* one) the SKU adds to sku_analysis
analyze_sku_unguarded(df, sku) ==
    LET sku_data == SelectSeq(df, LAMBDA r : r.SKU = sku)
        price_changes == dropna(pct_change(sku_data))
    IN  <<sku_entry(sku, Len(sku_data), price_changes,
                    sku_data[Len(sku_data)].Price, sku_data[Len(sku_data)].Week)>>

analyze_sku(df, sku) ==
    LET sku_data == SelectSeq(df, LAMBDA r : r.SKU = sku)
        price_changes == dropna(pct_change(sku_data))
    IN  IF Len(price_changes) > 0
        THEN <<sku_entry(sku, Len(sku_data), price_changes,
                         sku_data[Len(sku_data)].Price, sku_data[Len(sku_data)].Week)>>
        ELSE <<>>

RECURSIVE analyze_skus(_, _)
analyze_skus(df, skus) ==
    IF skus = <<>> THEN <<>>
    ELSE analyze_sku(df, Head(skus)) \o analyze_skus(df, Tail(skus))

\* json.dump(result, f, indent=2) raises TypeError for the keys of sku_analysis
\* when the SKU column is a column of integers (the values of
\* df['SKU'].unique() are then numpy.int64, no key type of json); the SKUs of
\* a column of dtype object are written.
dump_raises(sku_dtype, sku_analysis) == sku_dtype = "int64" /\ sku_analysis # <<>>

\* The value HistoricalPriceAnalysisTool._run returns for a file.
\* sku_analysis is the dict in insertion order, one record per key.
analyze_without_column_report(file) ==
    IF ~file.exists \/ hist_required_cols \ file.columns # {}
    THEN [kind |-> "error", error |-> "Error analyzing historical prices"]
    ELSE LET df == sort_values(parse_and_dropna(file.rows))
             sku_analysis == analyze_skus(df, unique_skus(df))
         IN  IF dump_raises(file.sku_dtype, sku_analysis)
             THEN [kind |-> "error", error |-> "Error analyzing historical prices",
                   raised_by |-> "json.dump"]
             ELSE [kind |-> "ok",
                   sku_analysis |-> sku_analysis,
                   total_skus |-> Len(sku_analysis)]

analyze(file) ==
    IF ~file.exists
    THEN [kind |-> "error", error |-> "Error analyzing historical prices"]
    ELSE LET missing_cols == hist_required_cols \ file.columns
         IN  IF missing_cols # {}
             THEN [kind |-> "error", error |-> "Missing required columns",
                   missing |-> missing_cols, available_columns |-> file.columns]
             ELSE LET df == sort_values(parse_and_dropna(file.rows))
                      sku_analysis == analyze_skus(df, unique_skus(df))
                  IN  IF dump_raises(file.sku_dtype, sku_analysis)
                      THEN [kind |-> "error", error |-> "Error analyzing historical prices",
                            raised_by |-> "json.dump"]
                      ELSE [kind |-> "ok",
                            sku_analysis |-> sku_analysis,
                            total_skus |-> Len(sku_analysis)]

\* The rows a historical file with the given columns can hold
HistRows(columns) ==
    IF "Price" \in columns
    THEN {[c \in hist_required_cols |->
              CASE c = "SKU" -> Num(s)
                [] c = "Week" -> w
                [] c = "Price" -> p
                [] c = "Pack Size" -> Num(6)
                [] c = "Pack Volume ml" -> Num(355)
                [] OTHER -> StrCell] :
            s \in Skus, w \in WeekCells, p \in PriceCells}
    ELSE {[c \in columns |->
              CASE c = "SKU" -> Num(s)
                [] c = "Week" -> w
                [] c = "Pack Size" -> Num(6)
                [] c = "Pack Volume ml" -> Num(355)
                [] OTHER -> StrCell] :
            s \in Skus, w \in {Num(1), Num(2)}}

CreateHistFile ==
    /\ ~hist_file.exists
    /\ hist_result = NoResult
    /\ \E columns \in {hist_required_cols, hist_required_cols \ {"Price"}} :
          hist_file' = [exists |-> TRUE, columns |-> columns, rows |-> <<>>,
                        sku_dtype |-> "object"]
    /\ UNCHANGED <<hist_result, historical_analysis_results_json, cat_vars,
                   forecast_vars, anomaly_vars, excel_vars, flow_vars>>

AppendHistRow ==
    /\ hist_file.exists
    /\ hist_result = NoResult
    /\ Len(hist_file.rows) < MaxHistRows
    /\ \E row \in HistRows(hist_file.columns) :
          hist_file' = [hist_file EXCEPT !.rows = Append(@, row)]
    /\ UNCHANGED <<hist_result, historical_analysis_results_json, cat_vars,
                   forecast_vars, anomaly_vars, excel_vars, flow_vars>>

\* HistoricalPriceAnalysisTool._run(file_path)
HistoricalPriceAnalysisTool_run ==
    /\ hist_result = NoResult
    /\ hist_result' = analyze(hist_file)
    /\ historical_analysis_results_json' =
          IF hist_result'.kind = "ok" THEN hist_result'
          ELSE IF "raised_by" \in DOMAIN hist_result' THEN Truncated
          ELSE historical_analysis_results_json
    /\ UNCHANGED <<hist_file, cat_vars, forecast_vars, anomaly_vars, excel_vars, flow_vars>>

NextHist == CreateHistFile \/ AppendHistRow \/ HistoricalPriceAnalysisTool_run

SpecHist == Init /\ [][NextHist]_vars

(***************************************************************************)
(* PriceForecastingTool                                                    *)
(*                                                                         *)
(* Inside the forecaster a float is an exact fraction <<n, d>> of          *)
(* hundredths of a percent.  round(x, 2) rounds to the nearest hundredth,  *)
(* a half upwards.  The weights exp(linspace(-1, 0, n)) are kept to three  *)
(* decimals.                                                               *)
(***************************************************************************)
min_changes_for_average == 3
recent_window == 8

\* safe_float(value) of a value read from a JSON artifact
safe_float_json(value) ==
    IF value = None \/ value = NaN \/ value = Inf THEN Fin(0) ELSE value

\* The fraction a finite float stands for
AsFraction(value) == IF value.k = "quot" THEN value.v ELSE <<value.v, 1>>

\* n / d rounded to the nearest integer (d > 0)
round_half_up(n, d) == (n \div d) + (IF 2 * (n % d) >= d THEN 1 ELSE 0)

\* The integer square root of q
RECURSIVE isqrt_between(_, _, _)
isqrt_between(q, lo, hi) ==
    IF hi - lo <= 1 THEN lo
    ELSE LET mid == (lo + hi) \div 2
         IN  IF mid * mid <= q THEN isqrt_between(q, mid, hi)
             ELSE isqrt_between(q, lo, mid)

isqrt(q) == isqrt_between(q, 0, 46341)

\* sqrt(n / d) rounded to the nearest integer
round_root(n, d) ==
    LET q == n \div d
        r == isqrt(q)
        k == q - r * r - r
    IN  IF k >= 1 \/ (k = 0 /\ 4 * (n % d) >= d) THEN r + 1 ELSE r

\* round(value, 2) of a finite float, in hundredths
round2(value) ==
    IF value.k = "quot" THEN round_half_up(value.v[1], value.v[2])
    ELSE IF value.k = "root" THEN round_root(value.v[1], value.v[2])
    ELSE value.v

\* np.exp(np.linspace(-1, 0, n)) in thousandths, for the window sizes 3 to 8
exp_linspace(n) ==
    CASE n = 3 -> <<368, 607, 1000>>
      [] n = 4 -> <<368, 513, 717, 1000>>
      [] n = 5 -> <<368, 472, 607, 779, 1000>>
      [] n = 6 -> <<368, 449, 549, 670, 819, 1000>>
      [] n = 7 -> <<368, 435, 513, 607, 717, 846, 1000>>
      [] n = 8 -> <<368, 424, 490, 565, 651, 751, 867, 1000>>

RECURSIVE SumSeq(_)
SumSeq(xs) == IF xs = <<>> THEN 0 ELSE Head(xs) + SumSeq(Tail(xs))

\* np.average(values, weights=weights), weights / weights.sum() included
np_average(values, weights) ==
    <<SumSeq([i \in DOMAIN values |-> weights[i] * values[i]]), SumSeq(weights)>>

\* all_changes[-8:]
recent_changes_oldest(all_changes) ==
    IF Len(all_changes) <= recent_window THEN all_changes
    ELSE SubSeq(all_changes, 1, recent_window)

recent_changes_of(all_changes) ==
    IF Len(all_changes) <= recent_window THEN all_changes
    ELSE SubSeq(all_changes, Len(all_changes) - recent_window + 1, Len(all_changes))

\* [safe_float(c) for c in all_changes_raw if c is not None]
usable_changes(all_changes_raw) ==
    LET kept == SelectSeq(all_changes_raw, LAMBDA c : c # None)
    IN  [i \in DOMAIN kept |-> safe_float_json(kept[i]).v]

\* Lines 249-262: forecasted_change_pct, as a fraction
forecasted_change_plain_mean(all_changes, mean_change) ==
    IF Len(all_changes) > 0 THEN mean_change ELSE <<0, 1>>

forecasted_change_weighting_two(all_changes, mean_change) ==
    IF Len(all_changes) >= 3
    THEN LET recent_changes == recent_changes_of(all_changes)
         IN  np_average(recent_changes, exp_linspace(Len(recent_changes)))
    ELSE IF Len(all_changes) = 2 THEN np_average(all_changes, <<368, 1000>>)
    ELSE IF Len(all_changes) > 0 THEN mean_change ELSE <<0, 1>>

forecasted_change(all_changes, mean_change) ==
    IF Len(all_changes) >= min_changes_for_average
    THEN LET recent_changes == recent_changes_of(all_changes)
         IN  np_average(recent_changes, exp_linspace(Len(recent_changes)))
    ELSE IF Len(all_changes) > 0 THEN mean_change ELSE <<0, 1>>

\* The body of the loop "for sku, stats in sku_analysis.items()": the
\* forecasts (none or one) the SKU adds
forecast_sku(stats) ==
    LET latest_price == safe_float_json(stats.latest_price).v
        mean_change == safe_float_json(stats.mean_change_pct)
        std_change == safe_float_json(stats.std_change_pct)
        all_changes == usable_changes(stats.all_changes)
    IN  IF latest_price = 0 THEN <<>>
        ELSE LET forecasted_change_pct ==
                     forecasted_change(all_changes, AsFraction(mean_change))
             IN  <<[sku |-> stats.sku,
                    current_price |-> latest_price,
                    current_week |-> stats.latest_week,
                    forecasted_price |->
                        latest_price + round_half_up(latest_price * forecasted_change_pct[1],
                                                     forecasted_change_pct[2] * 10000),
                    forecasted_change_pct |->
                        round_half_up(forecasted_change_pct[1], forecasted_change_pct[2]),
                    historical_mean_change_pct |-> round2(mean_change),
                    historical_std_change_pct |-> round2(std_change)]>>

RECURSIVE forecast_skus(_)
forecast_skus(sku_analysis) ==
    IF sku_analysis = <<>> THEN <<>>
    ELSE forecast_sku(Head(sku_analysis)) \o forecast_skus(Tail(sku_analysis))

\* The value PriceForecastingTool._run returns for the analysis artifact.
\* forecasts is the dict in insertion order, one record per key.
forecast(analysis_file) ==
    IF analysis_file = NoFile
    THEN [kind |-> "error", error |-> "Error forecasting prices"]
    ELSE IF analysis_file.kind = "truncated"
    THEN [kind |-> "error", error |-> "Error forecasting prices"]
    ELSE IF analysis_file.kind = "error"
    THEN [kind |-> "error", error |-> "Received error from previous tool"]
    ELSE LET sku_analysis == IF "sku_analysis" \in DOMAIN analysis_file
                             THEN analysis_file.sku_analysis
                             ELSE <<>>
             forecasts == forecast_skus(sku_analysis)
         IN  [kind |-> "ok",
              forecasts |-> forecasts,
              total_skus_forecasted |-> Len(forecasts)]

\* PriceForecastingTool._run(), reading data/output/historical_analysis_results.json
PriceForecastingTool_run_consuming ==
    /\ forecast_result' = forecast(historical_analysis_results_json)
    /\ price_forecasts_json' =
          IF forecast_result'.kind = "ok" THEN forecast_result'
          ELSE price_forecasts_json
    /\ historical_analysis_results_json' = NoFile
    /\ UNCHANGED <<hist_file, hist_result, cat_vars, anomaly_vars, excel_vars, flow_vars>>

PriceForecastingTool_run ==
    /\ forecast_result' = forecast(historical_analysis_results_json)
    /\ price_forecasts_json' =
          IF forecast_result'.kind = "ok" THEN forecast_result'
          ELSE price_forecasts_json
    /\ UNCHANGED <<cat_vars, hist_vars, anomaly_vars, excel_vars, flow_vars>>

(***************************************************************************)
(* AnomalyDetectionTool                                                    *)
(*                                                                         *)
(* A z-score is kept in hundredths, a threshold_sigma too.                 *)
(***************************************************************************)
top_n == 10

Thresholds == {0, 150}

Abs(x) == IF x < 0 THEN -x ELSE x

\* The body of the loop "for sku, forecast in forecasts.items()": the
\* anomalies (none or one) the SKU adds.  threshold_sigma is not read.
anomaly_of_unguarded(fc, threshold_sigma) ==
    LET forecast_change == fc.forecasted_change_pct
        historical_mean == fc.historical_mean_change_pct
        historical_std == fc.historical_std_change_pct
    IN  <<[sku |-> fc.sku,
           current_price |-> fc.current_price,
           forecasted_price |-> fc.forecasted_price,
           price_change_dollars |-> fc.forecasted_price - fc.current_price,
           forecasted_change_pct |-> forecast_change,
           historical_mean_change_pct |-> historical_mean,
           historical_std_change_pct |-> historical_std,
           z_score |-> IF historical_std > 0
                       THEN round_half_up(Abs(forecast_change - historical_mean) * 100,
                                          historical_std)
                       ELSE 0,
           significance |-> 0]>>

anomaly_of_above_threshold(fc, threshold_sigma) ==
    LET forecast_change == fc.forecasted_change_pct
        historical_mean == fc.historical_mean_change_pct
        historical_std == fc.historical_std_change_pct
    IN  IF historical_std > 0
           /\ round_half_up(Abs(forecast_change - historical_mean) * 100, historical_std)
                  >= threshold_sigma
        THEN <<[sku |-> fc.sku,
                current_price |-> fc.current_price,
                forecasted_price |-> fc.forecasted_price,
                price_change_dollars |-> fc.forecasted_price - fc.current_price,
                forecasted_change_pct |-> forecast_change,
                historical_mean_change_pct |-> historical_mean,
                historical_std_change_pct |-> historical_std,
                z_score |-> round_half_up(Abs(forecast_change - historical_mean) * 100,
                                          historical_std),
                significance |-> round_half_up(Abs(forecast_change - historical_mean) * 10,
                                               historical_std)]>>
        ELSE <<>>

anomaly_of(fc, threshold_sigma) ==
    LET forecast_change == fc.forecasted_change_pct
        historical_mean == fc.historical_mean_change_pct
        historical_std == fc.historical_std_change_pct
    IN  IF historical_std > 0
        THEN <<[sku |-> fc.sku,
                current_price |-> fc.current_price,
                forecasted_price |-> fc.forecasted_price,
                price_change_dollars |-> fc.forecasted_price - fc.current_price,
                forecasted_change_pct |-> forecast_change,
                historical_mean_change_pct |-> historical_mean,
                historical_std_change_pct |-> historical_std,
                z_score |-> round_half_up(Abs(forecast_change - historical_mean) * 100,
                                          historical_std),
                significance |-> round_half_up(Abs(forecast_change - historical_mean) * 10,
                                               historical_std)]>>
        ELSE <<>>

RECURSIVE anomalies_of(_, _)
anomalies_of(forecasts, threshold_sigma) ==
    IF forecasts = <<>> THEN <<>>
    ELSE anomaly_of(Head(forecasts), threshold_sigma)
             \o anomalies_of(Tail(forecasts), threshold_sigma)

\* anomalies.sort(key=lambda x: x['z_score'], reverse=True): a stable sort,
\* equal z-scores keep the order in which they were appended
RECURSIVE insert_by_z(_, _)
insert_by_z(a, sorted) ==
    IF sorted = <<>> THEN <<a>>
    ELSE IF Head(sorted).z_score >= a.z_score
         THEN <<Head(sorted)>> \o insert_by_z(a, Tail(sorted))
         ELSE <<a>> \o sorted

RECURSIVE sort_by_z(_)
sort_by_z(anomalies) ==
    IF anomalies = <<>> THEN <<>>
    ELSE insert_by_z(anomalies[Len(anomalies)],
                     sort_by_z(SubSeq(anomalies, 1, Len(anomalies) - 1)))

\* anomalies[:10]
first_ten_unsliced(anomalies) == anomalies

first_ten(anomalies) ==
    IF Len(anomalies) <= top_n THEN anomalies ELSE SubSeq(anomalies, 1, top_n)

\* The value AnomalyDetectionTool._run returns for the forecast artifact
detect(forecasts_file, threshold_sigma) ==
    IF forecasts_file = NoFile
    THEN [kind |-> "error", error |-> "Error detecting anomalies"]
    ELSE IF forecasts_file.kind = "truncated"
    THEN [kind |-> "error", error |-> "Error detecting anomalies"]
    ELSE IF forecasts_file.kind = "error"
    THEN [kind |-> "error", error |-> "Received error from previous tool"]
    ELSE LET forecasts == IF "forecasts" \in DOMAIN forecasts_file
                          THEN forecasts_file.forecasts
                          ELSE <<>>
             anomalies == sort_by_z(anomalies_of(forecasts, threshold_sigma))
         IN  [kind |-> "ok",
              top_10_notable_changes |-> first_ten(anomalies),
              total_anomalies_detected |-> Len(anomalies),
              threshold_used |-> threshold_sigma]

\* AnomalyDetectionTool._run(threshold_sigma), reading data/output/price_forecasts.json
AnomalyDetectionTool_run ==
    /\ \E threshold_sigma \in Thresholds :
          anomaly_result' = detect(price_forecasts_json, threshold_sigma)
    /\ pricing_anomalies_json' =
          IF anomaly_result'.kind = "ok" THEN anomaly_result'
          ELSE pricing_anomalies_json
    /\ UNCHANGED <<cat_vars, hist_vars, forecast_vars, excel_vars, flow_vars>>

(***************************************************************************)
(* Forecasting and ranking over the statistics of an earlier analysis      *)
(***************************************************************************)
\* The changes of the first SKU: small finite changes; in the shorter
\* series possibly after a first price of 0 (a first change of +inf) and
\* possibly ending in a price of 0 (a last change of -100%)
FiniteChanges == {Fin(0), Fin(1), Fin(100)}

FiniteSeries(longest) == UNION {[1..k -> FiniteChanges] : k \in 0..longest}

ChangeSeries ==
    FiniteSeries(MaxChanges) \cup
    {head \o body \o tail :
        head \in {<<>>, <<Inf>>},
        body \in FiniteSeries(MaxZeroPriceChanges),
        tail \in {<<>>, <<Fin(-10000)>>}}

\* What the analysis writes for SKU 1 with these changes, and for a SKU 2
\* with three changes
AnalysisOf(changes) ==
    LET sku_analysis ==
            <<sku_entry(1, Len(changes) + 1, changes,
                        IF changes[Len(changes)] = Fin(-10000) THEN 0 ELSE 1000,
                        Len(changes) + 1),
              sku_entry(2, 4, <<Fin(0), Fin(100), Fin(100)>>, 500, 4)>>
    IN  [kind |-> "ok", sku_analysis |-> sku_analysis, total_skus |-> Len(sku_analysis)]

InitForecast ==
    /\ price_file = NoFile
    /\ cat_result = NoResult
    /\ price_categories_json = NoFile
    /\ hist_file = NoFile
    /\ hist_result = NoResult
    /\ historical_analysis_results_json \in
          {NoFile} \cup
          {AnalysisOf(changes) :
              changes \in ChangeSeries \ {<<>>}}
    /\ forecast_result = NoResult
    /\ price_forecasts_json = NoFile
    /\ anomaly_result = NoResult
    /\ pricing_anomalies_json = NoFile
    /\ ExcelToolsUnused
    /\ FlowConstructed

NextForecast == PriceForecastingTool_run \/ AnomalyDetectionTool_run

SpecForecast == InitForecast /\ [][NextForecast]_vars

(***************************************************************************)
(* Ranking over the forecasts of an earlier run                            *)
(***************************************************************************)
\* The forecasts of a SKU by level: no deviation at all, a forecast one
\* deviation above the mean, a forecast two deviations above the mean
ForecastLevels == {"flat", "one_sigma", "two_sigma"}

ForecastAt(sku, level) ==
    [sku |-> sku,
     current_price |-> 1000,
     current_week |-> 9,
     forecasted_price |-> IF level = "flat" THEN 1005
                          ELSE IF level = "one_sigma" THEN 1010 ELSE 1020,
     forecasted_change_pct |-> IF level = "flat" THEN 50
                               ELSE IF level = "one_sigma" THEN 100 ELSE 200,
     historical_mean_change_pct |-> IF level = "flat" THEN 50 ELSE 0,
     historical_std_change_pct |-> IF level = "flat" THEN 0 ELSE 100]

\* The levels of n SKUs, of which the first or the last may have no deviation
LevelsOf(n) ==
    LET varying == [1..n -> ForecastLevels \ {"flat"}]
    IN  varying \cup {[levels EXCEPT ![i] = "flat"] :
                         levels \in varying, i \in {1, n} \cap (1..n)}

\* A forecast artifact of n SKUs, listed by ascending or by descending SKU
ForecastsOf(levels, ascending) ==
    LET n == Len(levels)
        forecasts == [i \in 1..n |->
                         ForecastAt(IF ascending THEN i ELSE n + 1 - i, levels[i])]
    IN  [kind |-> "ok", forecasts |-> forecasts, total_skus_forecasted |-> n]

InitRank ==
    /\ price_file = NoFile
    /\ cat_result = NoResult
    /\ price_categories_json = NoFile
    /\ hist_file = NoFile
    /\ hist_result = NoResult
    /\ historical_analysis_results_json = NoFile
    /\ forecast_result = NoResult
    /\ price_forecasts_json \in
          {ForecastsOf(levels, ascending) :
              levels \in UNION {LevelsOf(n) : n \in 0..MaxSkus},
              ascending \in BOOLEAN}
    /\ anomaly_result = NoResult
    /\ pricing_anomalies_json = NoFile
    /\ ExcelToolsUnused
    /\ FlowConstructed

NextRank == AnomalyDetectionTool_run

SpecRank == InitRank /\ [][NextRank]_vars

(***************************************************************************)
(* DataCleanerTool (tools/excel_tools.py)                                  *)
(*                                                                         *)
(* A JSON value of a record is null, NaN, a number or a text; the value of *)
(* a number is its literal.                                                *)
(***************************************************************************)
JsonNull == [k |-> "null", v |-> ""]
JsonNaN == [k |-> "nan", v |-> ""]
JsonNumber(literal) == [k |-> "number", v |-> literal]
JsonText(text) == [k |-> "text", v |-> text]

CleanerKeys == {"Product Name", "Old Price"}

\* value.strip() followed by ' '.join(value.split()), on the texts of the model
clean_text(text) == IF text = "  Bud   Light " THEN "Bud Light" ELSE text

\* The body of the loop "for key, value in record.items()"
clean_value(value) ==
    IF value.k = "nan" \/ value.k = "null" THEN JsonNull
    ELSE IF value.k = "text" THEN JsonText(clean_text(value.v))
    ELSE value

clean_record(record) == [key \in DOMAIN record |-> clean_value(record[key])]

\* The value DataCleanerTool._run returns for the JSON string data
clean(data) ==
    IF data.kind = "invalid"
    THEN [kind |-> "error", error |-> "Error cleaning data"]
    ELSE LET records == IF "records" \in DOMAIN data THEN data.records ELSE <<>>
             cleaned_records == [i \in DOMAIN records |-> clean_record(records[i])]
         IN  [kind |-> "ok",
              success |-> TRUE,
              cleaned_records |-> cleaned_records,
              total_cleaned |-> Len(cleaned_records)]

\* The strings given as data: not JSON, an object without "records", an
\* object with up to MaxRecords records
CleanerRecords ==
    {[key \in CleanerKeys |-> IF key = "Product Name" THEN name ELSE price] :
        name \in {JsonNull, JsonText("Labatt"), JsonText("  Bud   Light ")},
        price \in {JsonNull, JsonNaN, JsonNumber("24.99")}}

CleanerData ==
    {[kind |-> "invalid"], [kind |-> "object"]} \cup
    {[kind |-> "object", records |-> records] :
        records \in UNION {[1..n -> CleanerRecords] : n \in 0..MaxRecords}}

DataCleanerTool_run ==
    /\ cleaner_result = NoResult
    /\ \E data \in CleanerData :
          /\ cleaner_data' = data
          /\ cleaner_result' = clean(data)
    /\ UNCHANGED <<calc_result, cat_vars, hist_vars, forecast_vars, anomaly_vars, flow_vars>>

NextClean == DataCleanerTool_run

SpecClean == Init /\ [][NextClean]_vars

(***************************************************************************)
(* PriceCalculatorTool (tools/excel_tools.py)                              *)
(*                                                                         *)
(* Prices are whole cents, not negative; the ratio new_price / old_price   *)
(* is compared exactly.                                                    *)
(***************************************************************************)
CalcPrices == 0..MaxCalcPrice

\* The if / elif chain on price_ratio (1.0 when old_price is 0)
change_type_no_change(old_price, new_price) ==
    LET ratio_n == IF old_price # 0 THEN new_price ELSE 1
        ratio_d == IF old_price # 0 THEN old_price ELSE 1
    IN  IF ratio_n = ratio_d THEN "No Change"
        ELSE IF ratio_n * 100 < 96 * ratio_d THEN "Begin LTO"
        ELSE IF ratio_n * 100 > 104 * ratio_d THEN "End LTO"
        ELSE "Permanent Change"

change_type_exclusive(old_price, new_price) ==
    LET ratio_n == IF old_price # 0 THEN new_price ELSE 1
        ratio_d == IF old_price # 0 THEN old_price ELSE 1
    IN  IF ratio_n * 100 <= 96 * ratio_d THEN "Begin LTO"
        ELSE IF ratio_n * 100 >= 104 * ratio_d THEN "End LTO"
        ELSE "Permanent Change"

change_type(old_price, new_price) ==
    LET ratio_n == IF old_price # 0 THEN new_price ELSE 1
        ratio_d == IF old_price # 0 THEN old_price ELSE 1
    IN  IF ratio_n * 100 < 96 * ratio_d THEN "Begin LTO"
        ELSE IF ratio_n * 100 > 104 * ratio_d THEN "End LTO"
        ELSE IF 96 * ratio_d <= ratio_n * 100 /\ ratio_n * 100 <= 104 * ratio_d
        THEN "Permanent Change"
        ELSE "No Change"

\* The value PriceCalculatorTool._run returns; change_percent in hundredths
calculate(old_price, new_price) ==
    LET change_amount == new_price - old_price
        suggested_category == change_type(old_price, new_price)
    IN  [kind |-> "ok",
         success |-> TRUE,
         old_price |-> old_price,
         new_price |-> new_price,
         change_amount |-> change_amount,
         change_percent |-> IF old_price # 0
                            THEN round_half_up(change_amount * 10000, old_price)
                            ELSE 0,
         direction |-> CASE suggested_category = "Begin LTO" -> "decrease"
                         [] suggested_category = "End LTO" -> "increase"
                         [] suggested_category = "Permanent Change" ->
                                IF change_amount < 0 THEN "decrease" ELSE "increase"
                         [] OTHER -> "no change",
         suggested_category |-> suggested_category,
         is_significant |-> suggested_category # "No Change",
         sign |-> IF change_amount >= 0 THEN "+" ELSE "-"]

PriceCalculatorTool_run ==
    /\ calc_result = NoResult
    /\ \E old_price \in CalcPrices, new_price \in CalcPrices :
          calc_result' = calculate(old_price, new_price)
    /\ UNCHANGED <<cleaner_data, cleaner_result, cat_vars, hist_vars, forecast_vars,
                   anomaly_vars, flow_vars>>

NextCalc == PriceCalculatorTool_run

SpecCalc == Init /\ [][NextCalc]_vars

(***************************************************************************)
(* RevManFlow (main.py)                                                    *)
(*                                                                         *)
(* A method decorated @listen(m) runs when m has returned; an exception    *)
(* raised by a method leaves kickoff and no later method runs.  The text   *)
(* of the email is kept as the set of the phrases it contains.             *)
(***************************************************************************)
TITLE == "Highlights (Price Before Tax and Deposit)"
brewers == {"LABATT", "MOLSON", "SLEEMAN", "Other"}
sections == {"Begin LTO", "End LTO", "Permanent Changes"}

Phrases == {TITLE} \cup brewers \cup sections

\* The method that returned last ("" before trigger_flow)
LastMethod == IF method_outputs = <<>> THEN "" ELSE method_outputs[Len(method_outputs)]

flow_unchanged_but(changed) ==
    /\ "method_outputs" \in changed \/ UNCHANGED method_outputs
    /\ "flow_failed" \in changed \/ UNCHANGED flow_failed
    /\ "email_content" \in changed \/ UNCHANGED email_content
    /\ "validation" \in changed \/ UNCHANGED <<validation_report, validation_passed>>
    /\ "files" \in changed \/ UNCHANGED <<email_txt, metadata_json, validation_json, flow_output>>
    /\ UNCHANGED <<cat_vars, hist_vars, forecast_vars, anomaly_vars, excel_vars>>

\* @start() trigger_flow: raises FileNotFoundError when the Excel file is absent
trigger_flow ==
    /\ method_outputs = <<>>
    /\ ~flow_failed
    /\ \E excel_path_exists \in BOOLEAN :
          IF ~excel_path_exists
          THEN /\ flow_failed' = TRUE
               /\ flow_unchanged_but({"flow_failed"})
          ELSE /\ method_outputs' = <<"trigger_flow">>
               /\ flow_unchanged_but({"method_outputs"})

\* @listen(trigger_flow) excel_processing_step: the crew returns or raises
excel_processing_step ==
    /\ LastMethod = "trigger_flow"
    /\ ~flow_failed
    /\ \E crew_raises \in BOOLEAN :
          IF crew_raises
          THEN /\ flow_failed' = TRUE
               /\ flow_unchanged_but({"flow_failed"})
          ELSE /\ method_outputs' = Append(method_outputs, "excel_processing_step")
               /\ flow_unchanged_but({"method_outputs"})

\* @listen(excel_processing_step) email_generation_step: the crew raises or
\* returns the text of the email
email_generation_step ==
    /\ LastMethod = "excel_processing_step"
    /\ ~flow_failed
    /\ \/ /\ flow_failed' = TRUE
          /\ flow_unchanged_but({"flow_failed"})
       \/ \E content \in SUBSET Phrases :
             /\ email_content' = content
             /\ method_outputs' = Append(method_outputs, "email_generation_step")
             /\ flow_unchanged_but({"email_content", "method_outputs"})

\* The validation_data validation_step builds for a text
validation_data_of(content) ==
    LET critical_issues ==
            (IF TITLE \notin content THEN <<"Missing required title">> ELSE <<>>)
            \o (IF content \cap brewers = {} THEN <<"No brewer sections found">> ELSE <<>>)
        warnings ==
            IF content \cap sections = {} THEN <<"No change type sections found">> ELSE <<>>
    IN  [validation_status |-> IF critical_issues # <<>> THEN "FAIL"
                               ELSE IF warnings # <<>> THEN "PASS WITH WARNINGS"
                               ELSE "PASS",
         quality_score |-> IF critical_issues # <<>> THEN 0
                           ELSE IF warnings # <<>> THEN 80
                           ELSE 100,
         critical_issues |-> critical_issues,
         warnings |-> warnings]

\* @listen(email_generation_step) validation_step: raises when a critical
\* issue was found, after it has stored the report
validation_step_without_raise ==
    /\ LastMethod = "email_generation_step"
    /\ ~flow_failed
    /\ validation_report' = validation_data_of(email_content)
    /\ validation_passed' =
          (validation_report'.validation_status \in {"PASS", "PASS WITH WARNINGS"})
    /\ method_outputs' = Append(method_outputs, "validation_step")
    /\ flow_unchanged_but({"validation", "method_outputs"})

validation_step ==
    /\ LastMethod = "email_generation_step"
    /\ ~flow_failed
    /\ validation_report' = validation_data_of(email_content)
    /\ validation_passed' =
          (validation_report'.validation_status \in {"PASS", "PASS WITH WARNINGS"})
    /\ IF validation_report'.critical_issues # <<>>
       THEN /\ flow_failed' = TRUE
            /\ flow_unchanged_but({"validation", "flow_failed"})
       ELSE /\ method_outputs' = Append(method_outputs, "validation_step")
            /\ flow_unchanged_but({"validation", "method_outputs"})

\* @listen(validation_step) save_email_output: writes the three files and
\* returns the FlowOutput
save_email_output ==
    /\ LastMethod = "validation_step"
    /\ ~flow_failed
    /\ email_txt' = [exists |-> TRUE, content |-> email_content]
    /\ metadata_json' = [exists |-> TRUE, validation_passed |-> validation_passed]
    /\ validation_json' = [exists |-> TRUE, report |-> validation_report]
    /\ flow_output' =
          [kind |-> "ok",
           email_content |-> email_content,
           validation_status |-> validation_report.validation_status,
           validation_score |-> validation_report.quality_score,
           validation_issues |-> validation_report.critical_issues,
           validation_warnings |-> validation_report.warnings]
    /\ method_outputs' = Append(method_outputs, "save_email_output")
    /\ flow_unchanged_but({"files", "method_outputs"})

NextFlow ==
    \/ trigger_flow
    \/ excel_processing_step
    \/ email_generation_step
    \/ validation_step
    \/ save_email_output

SpecFlow == Init /\ [][NextFlow]_vars

(***************************************************************************)
(* Runs of the tools over data/output                                      *)
(*                                                                         *)
(* PricingAnalysisCrew runs its three tasks in sequence (Process.          *)
(* sequential): the analysis, then the forecast, then the ranking; the     *)
(* categorizer is called once in a run.  The next kickoff starts from a    *)
(* new input snapshot and finds in data/output what earlier runs left.     *)
(***************************************************************************)
HistRow(sku, week, price) ==
    [c \in hist_required_cols |->
        CASE c = "SKU" -> Num(sku)
          [] c = "Week" -> Num(week)
          [] c = "Price" -> Num(price)
          [] c = "Pack Size" -> Num(6)
          [] c = "Pack Volume ml" -> Num(355)
          [] OTHER -> StrCell]

\* The historical files given to a run: none, one without the Price
\* column, one of a SKU whose price rises, one of a SKU whose price falls,
\* one whose SKU column holds integers
RunHistFiles ==
    {NoFile,
     [exists |-> TRUE, columns |-> hist_required_cols \ {"Price"}, sku_dtype |-> "object",
      rows |-> <<[c \in hist_required_cols \ {"Price"} |-> HistRow(1, 1, 10)[c]]>>],
     [exists |-> TRUE, columns |-> hist_required_cols, sku_dtype |-> "object",
      rows |-> <<HistRow(1, 1, 10), HistRow(1, 2, 20), HistRow(1, 3, 20)>>],
     [exists |-> TRUE, columns |-> hist_required_cols, sku_dtype |-> "object",
      rows |-> <<HistRow(2, 1, 20), HistRow(2, 2, 10), HistRow(2, 3, 20)>>],
     [exists |-> TRUE, columns |-> hist_required_cols, sku_dtype |-> "int64",
      rows |-> <<HistRow(1, 1, 10), HistRow(1, 2, 20), HistRow(1, 3, 20)>>]}

\* The price change files given to a run: none, one without the Old Price
\* column, one with a Retail Price record
RunPriceFiles ==
    {NoFile,
     [exists |-> TRUE, columns |-> cat_required_cols \ {"Old Price"},
      rows |-> <<[c \in cat_required_cols \ {"Old Price"} |->
                     CASE c = "Product Name" -> Num(1)
                       [] c = "Pack Size" -> StrCell
                       [] c = "Type of Sale" -> RETAIL_HYPHEN
                       [] c = "New Price" -> Num(24)]>>],
     [exists |-> TRUE, columns |-> cat_required_cols,
      rows |-> <<[c \in cat_required_cols |->
                     CASE c = "Product Name" -> Num(1)
                       [] c = "Pack Size" -> StrCell
                       [] c = "Type of Sale" -> RETAIL_HYPHEN
                       [] c = "Old Price" -> Num(25)
                       [] c = "New Price" -> Num(24)]>>]}

InitRuns ==
    /\ price_file \in RunPriceFiles
    /\ cat_result = NoResult
    /\ price_categories_json = NoFile
    /\ hist_file \in RunHistFiles
    /\ hist_result = NoResult
    /\ historical_analysis_results_json = NoFile
    /\ forecast_result = NoResult
    /\ price_forecasts_json = NoFile
    /\ anomaly_result = NoResult
    /\ pricing_anomalies_json = NoFile
    /\ ExcelToolsUnused
    /\ FlowConstructed

\* The tasks of PricingAnalysisCrew, in the order of the crew
analyze_historical_trends == HistoricalPriceAnalysisTool_run

forecast_next_week_prices ==
    /\ hist_result # NoResult
    /\ forecast_result = NoResult
    /\ PriceForecastingTool_run

identify_notable_changes ==
    /\ forecast_result # NoResult
    /\ anomaly_result = NoResult
    /\ AnomalyDetectionTool_run

\* The task of ExcelProcessorCrew that calls the categorizer
analyze_price_changes == PriceCategorizationTool_run

\* The next run: new input files, no tool called yet, data/output as it is
kickoff ==
    /\ anomaly_result # NoResult
    /\ price_file' \in RunPriceFiles
    /\ hist_file' \in RunHistFiles
    /\ cat_result' = NoResult
    /\ hist_result' = NoResult
    /\ forecast_result' = NoResult
    /\ anomaly_result' = NoResult
    /\ UNCHANGED <<price_categories_json, historical_analysis_results_json,
                   price_forecasts_json, pricing_anomalies_json, excel_vars, flow_vars>>

NextRuns ==
    \/ analyze_historical_trends
    \/ forecast_next_week_prices
    \/ identify_notable_changes
    \/ analyze_price_changes
    \/ kickoff

SpecRuns == InitRuns /\ [][NextRuns]_vars

(***************************************************************************)
(* The forecaster and the ranking over whatever file is at their path      *)
(***************************************************************************)
\* A JSON object with neither an "error" nor a map
EmptyObject == [kind |-> "ok"]

ErrorObject == [kind |-> "error", error |-> "Error analyzing historical prices"]

UpstreamAnalysisFiles ==
    {NoFile, Truncated, EmptyObject, ErrorObject,
     AnalysisOf(<<Fin(100)>>), AnalysisOf(<<Fin(0), Fin(100), Fin(100)>>)}

UpstreamForecastFiles ==
    {NoFile, Truncated, EmptyObject, ErrorObject,
     ForecastsOf(<<"two_sigma">>, TRUE), ForecastsOf(<<"one_sigma", "two_sigma">>, TRUE)}

InitUpstream ==
    /\ price_file = NoFile
    /\ cat_result = NoResult
    /\ price_categories_json = NoFile
    /\ hist_file = NoFile
    /\ hist_result = NoResult
    /\ historical_analysis_results_json \in UpstreamAnalysisFiles
    /\ forecast_result = NoResult
    /\ price_forecasts_json \in UpstreamForecastFiles
    /\ anomaly_result = NoResult
    /\ pricing_anomalies_json = NoFile
    /\ ExcelToolsUnused
    /\ FlowConstructed

NextUpstream == PriceForecastingTool_run \/ AnomalyDetectionTool_run

SpecUpstream == InitUpstream /\ [][NextUpstream]_vars

(***************************************************************************)
(* Claims about the categorizer                                            *)
(***************************************************************************)
CategoryNames == {"licensee_changes", "new_skus", "permanent_changes", "begin_lto", "end_lto"}

IsEmptyRow(row) == \A c \in DOMAIN row : row[c].k = "null"
IsRetail(row) == Strip(row["Type of Sale"]) \in {RETAIL_EN_DASH, RETAIL_HYPHEN}

\* The input rows the categorizer reads (the rows that are not entirely empty)
ReadRows == {i \in DOMAIN price_file.rows : ~IsEmptyRow(price_file.rows[i])}

\* The entries of a category list of the report that belong to input row i
EntriesOf(name, i) ==
    {j \in DOMAIN cat_result[name] :
        cat_result[name][j].product = price_file.rows[i]["Product Name"]}

\* Row i is reported once, in the list called name, and in no other list
OnlyIn(name, i) ==
    /\ Cardinality(EntriesOf(name, i)) = 1
    /\ \A other \in CategoryNames \ {name} : EntriesOf(other, i) = {}

InNoCategory(i) == \A name \in CategoryNames : EntriesOf(name, i) = {}

RECURSIVE SumOver(_, _)
SumOver(f, S) ==
    IF S = {} THEN 0
    ELSE LET x == CHOOSE y \in S : TRUE IN f[x] + SumOver(f, S \ {x})

\* C1: every non-empty input row lands in exactly one category of the report,
\* so the per-category counts sum to total_products.
C1_EveryRowCategorized ==
    cat_result.kind = "ok" =>
        /\ \A i \in ReadRows : \E name \in CategoryNames : OnlyIn(name, i)
        /\ SumOver([name \in CategoryNames |-> Len(cat_result[name])], CategoryNames)
               = cat_result.total_products

C3_InvalidPriceExcluded ==
    cat_result.kind = "ok" =>
        \A i \in ReadRows :
            (price_file.rows[i]["Old Price"].k # "num"
             \/ price_file.rows[i]["New Price"].k # "num") => InNoCategory(i)

\* C4: a Retail Price record with old_price = 0 is reported once, as a
\* PermanentChange carrying a note, whatever its new price, and a run over a
\* readable file with all columns never ends in an error.
C4_ZeroOldPrice ==
    /\ cat_result.kind = "ok" =>
          \A i \in ReadRows :
              (IsRetail(price_file.rows[i]) /\ price_file.rows[i]["Old Price"] = Num(0)) =>
                  /\ OnlyIn("permanent_changes", i)
                  /\ \A j \in EntriesOf("permanent_changes", i) :
                        "note" \in DOMAIN cat_result.permanent_changes[j]
    /\ (cat_result # NoResult /\ price_file.exists
        /\ price_file.columns = cat_required_cols) => cat_result.kind = "ok"

\* A report with a retail record of old price 0 and a new price of 27
C4_Witness ==
    /\ cat_result.kind = "ok"
    /\ \E i \in ReadRows :
          /\ IsRetail(price_file.rows[i])
          /\ price_file.rows[i]["Old Price"] = Num(0)
          /\ price_file.rows[i]["New Price"] = Num(27)
          /\ \E j \in EntriesOf("permanent_changes", i) :
                "note" \in DOMAIN cat_result.permanent_changes[j]

\* C5: a Licensee record is always a LicenseeChange and a New SKU record is
\* always a NewSku, whatever its prices; neither enters BeginLTO, EndLTO or
\* PermanentChange.
C5_SaleTypeFirst ==
    cat_result.kind = "ok" =>
        \A i \in ReadRows :
            /\ Strip(price_file.rows[i]["Type of Sale"]) = LICENSEE
                  => OnlyIn("licensee_changes", i)
            /\ Strip(price_file.rows[i]["Type of Sale"]) = NEW_SKU
                  => OnlyIn("new_skus", i)

\* A report with a Licensee record of old price 0 and a New SKU record whose
\* ratio is 108
C5_Witness ==
    /\ cat_result.kind = "ok"
    /\ \E i, j \in ReadRows :
          /\ price_file.rows[i]["Type of Sale"] = LICENSEE
          /\ price_file.rows[i]["Old Price"] = Num(0)
          /\ price_file.rows[j]["Type of Sale"] = NEW_SKU
          /\ price_file.rows[j]["Old Price"] = Num(25)
          /\ price_file.rows[j]["New Price"] = Num(27)
          /\ OnlyIn("licensee_changes", i) /\ OnlyIn("new_skus", j)

(***************************************************************************)
(* Claims about the trend analysis                                         *)
(***************************************************************************)
\* The valid observations of a SKU: the rows of the input table, by position,
\* whose week and price both parse
ValidRowsOf(sku) ==
    {i \in DOMAIN hist_file.rows :
        /\ hist_file.rows[i]["SKU"].v = sku
        /\ hist_file.rows[i]["Week"].k = "num"
        /\ hist_file.rows[i]["Price"].k = "num"}

WeekOfRow(i) == hist_file.rows[i]["Week"].v
PriceOfRow(i) == hist_file.rows[i]["Price"].v
WeeksOf(sku) == {WeekOfRow(i) : i \in ValidRowsOf(sku)}

Entries == hist_result.sku_analysis
EntriesOfSku(sku) == {e \in DOMAIN Entries : Entries[e].sku = sku}

\* The percentage change from price a to price b, as the analysis defines it
ChangeBetween(a, b) ==
    IF a = 0 THEN (IF b = 0 THEN NaN ELSE Inf)
    ELSE Fin(((b - a) * 10000) \div a)

\* all_changes lists exactly the defined changes of the sequence cs, in order,
\* an infinite one written as None
ListsDefinedChanges(all_changes, cs) ==
    LET defined == SelectSeq(cs, LAMBDA c : c # NaN)
    IN  /\ Len(all_changes) = Len(defined)
        /\ \A k \in DOMAIN defined :
              all_changes[k] = IF defined[k] = Inf THEN None ELSE defined[k]

\* C6: for every SKU of the trend statistics, all_changes has one element
\* less than the SKU has valid observations.
C6_ChangesLength ==
    hist_result.kind = "ok" =>
        \A e \in DOMAIN Entries :
            Len(Entries[e].all_changes) = Cardinality(ValidRowsOf(Entries[e].sku)) - 1

\* C7: a SKU with at most one valid observation has no entry in sku_analysis,
\* and total_skus is the number of SKUs that have an entry.
C7_SingleObservationExcluded ==
    hist_result.kind = "ok" =>
        /\ \A sku \in Skus :
              Cardinality(ValidRowsOf(sku)) <= 1 => EntriesOfSku(sku) = {}
        /\ \A sku \in Skus : Cardinality(EntriesOfSku(sku)) <= 1
        /\ hist_result.total_skus
               = Cardinality({sku \in Skus : EntriesOfSku(sku) # {}})

\* A table in which one SKU has a single valid observation next to an invalid
\* row and gets no entry, while the other SKU is analysed
C7_Witness ==
    /\ hist_result.kind = "ok"
    /\ hist_result.total_skus = 1
    /\ \E sku \in Skus :
          /\ Cardinality(ValidRowsOf(sku)) = 1
          /\ EntriesOfSku(sku) = {}

\* The valid observations of a SKU in the order of the analysis: by week,
\* rows of the same week in table order
ObservedBefore(i, j) ==
    WeekOfRow(i) < WeekOfRow(j) \/ (WeekOfRow(i) = WeekOfRow(j) /\ i < j)

Observations(sku) ==
    [r \in 1..Cardinality(ValidRowsOf(sku)) |->
        CHOOSE i \in ValidRowsOf(sku) :
            Cardinality({j \in ValidRowsOf(sku) : ObservedBefore(j, i)}) = r - 1]

\* C8: a row with a non-numeric price or an unparsable week is removed whole:
\* total_weeks counts the valid observations only, and all_changes lists the
\* changes between consecutive valid observations of the SKU.
C8_InvalidRowsRemoved ==
    hist_result.kind = "ok" =>
        \A e \in DOMAIN Entries :
            LET obs == Observations(Entries[e].sku)
            IN  /\ Entries[e].total_weeks = Len(obs)
                /\ ListsDefinedChanges(Entries[e].all_changes,
                       [r \in 1..(Len(obs) - 1) |->
                           ChangeBetween(PriceOfRow(obs[r]), PriceOfRow(obs[r + 1]))])

\* A SKU with prices 10, "Delisted", 20 in weeks 1, 2, 3: one change of +100%
C8_Witness ==
    /\ hist_result.kind = "ok"
    /\ Len(hist_file.rows) = 3
    /\ \A i \in 1..3 : hist_file.rows[i]["SKU"] = Num(1)
                       /\ hist_file.rows[i]["Week"] = Num(i)
    /\ hist_file.rows[1]["Price"] = Num(10)
    /\ hist_file.rows[2]["Price"] = StrCell
    /\ hist_file.rows[3]["Price"] = Num(20)
    /\ Len(Entries) = 1
    /\ Entries[1].total_weeks = 2
    /\ Entries[1].all_changes = <<Fin(10000)>>

\* C9: the history of a SKU has at most one observation per week: total_weeks
\* is the number of distinct weeks, and there are fewer changes than weeks.
C9_OneObservationPerWeek ==
    hist_result.kind = "ok" =>
        \A e \in DOMAIN Entries :
            /\ Entries[e].total_weeks = Cardinality(WeeksOf(Entries[e].sku))
            /\ Len(Entries[e].all_changes) < Cardinality(WeeksOf(Entries[e].sku))

\* The r-th week of a SKU in ascending order, and the price observed in a week
NthWeek(sku, r) ==
    CHOOSE w \in WeeksOf(sku) : Cardinality({x \in WeeksOf(sku) : x < w}) = r - 1

PriceInWeek(sku, w) ==
    PriceOfRow(CHOOSE i \in ValidRowsOf(sku) : WeekOfRow(i) = w)

\* C10: the statistics of a SKU whose rows have distinct weeks depend only on
\* the set of its (week, price) observations, not on the order of the rows:
\* the changes are listed in ascending week order and latest_price and
\* latest_week are those of the greatest week.
C10_OrderIndependent ==
    hist_result.kind = "ok" =>
        \A e \in DOMAIN Entries :
            LET sku == Entries[e].sku
                n == Cardinality(WeeksOf(sku))
            IN  Cardinality(ValidRowsOf(sku)) = n =>
                    /\ Entries[e].latest_week = NthWeek(sku, n)
                    /\ Entries[e].latest_price = Fin(PriceInWeek(sku, NthWeek(sku, n)))
                    /\ ListsDefinedChanges(Entries[e].all_changes,
                           [r \in 1..(n - 1) |->
                               ChangeBetween(PriceInWeek(sku, NthWeek(sku, r)),
                                             PriceInWeek(sku, NthWeek(sku, r + 1)))])

\* A table that lists weeks 3, 1, 2 of a SKU in that order, with prices
\* 10, 20, 10: the changes are -50% then 0%, the latest price that of week 3
C10_Witness ==
    /\ hist_result.kind = "ok"
    /\ Len(hist_file.rows) = 3
    /\ \A i \in 1..3 : hist_file.rows[i]["SKU"] = Num(2)
    /\ hist_file.rows[1]["Week"] = Num(3) /\ hist_file.rows[1]["Price"] = Num(10)
    /\ hist_file.rows[2]["Week"] = Num(1) /\ hist_file.rows[2]["Price"] = Num(20)
    /\ hist_file.rows[3]["Week"] = Num(2) /\ hist_file.rows[3]["Price"] = Num(10)
    /\ Len(Entries) = 1
    /\ Entries[1].all_changes = <<Fin(-5000), Fin(0)>>
    /\ Entries[1].latest_week = 3
    /\ Entries[1].latest_price = Fin(10)

(***************************************************************************)
(* Claims about the forecaster                                             *)
(***************************************************************************)
\* The entries of the trend statistics and of the forecast artifact
TrendEntries ==
    IF historical_analysis_results_json = NoFile THEN {}
    ELSE {historical_analysis_results_json.sku_analysis[i] :
             i \in DOMAIN historical_analysis_results_json.sku_analysis}

ForecastEntries ==
    IF price_forecasts_json = NoFile THEN {}
    ELSE {price_forecasts_json.forecasts[i] : i \in DOMAIN price_forecasts_json.forecasts}

ForecastsOfSku(sku) == {f \in ForecastEntries : f.sku = sku}

\* The recorded changes of a trend entry that are numbers, oldest first
DefinedChanges(e) ==
    LET kept == SelectSeq(e.all_changes, LAMBDA c : c.k = "fin")
    IN  [i \in DOMAIN kept |-> kept[i].v]

\* The last k of a sequence of changes
LastChanges(changes, k) == SubSeq(changes, Len(changes) - k + 1, Len(changes))

WindowOf(changes) ==
    LastChanges(changes, IF Len(changes) <= 8 THEN Len(changes) ELSE 8)

\* C11: the statistics handed to the forecaster hold no NaN and no infinity
\* (the deviation of a single change is 0.0), and an infinite change never
\* enters a forecast: with one or two defined changes the forecasted change
\* is the mean of the defined changes alone.
C11_InfiniteNeverEntersForecast ==
    \A e \in TrendEntries :
        /\ e.mean_change_pct \notin {NaN, Inf}
        /\ e.std_change_pct \notin {NaN, Inf}
        /\ \A i \in DOMAIN e.all_changes : e.all_changes[i] \notin {NaN, Inf}
        /\ Len(e.all_changes) = 1 => e.std_change_pct = Fin(0)
        /\ \A f \in ForecastsOfSku(e.sku) :
              LET defined == DefinedChanges(e)
              IN  Len(defined) \in 1..2 =>
                     f.forecasted_change_pct = round_half_up(SumSeq(defined), Len(defined))

\* C12: once the forecaster has run, a SKU of the trend statistics has a
\* forecast exactly when its latest price is not 0 and it has at least one
\* defined change.
C12_ForecastIffEligible ==
    price_forecasts_json # NoFile =>
        \A e \in TrendEntries :
            (ForecastsOfSku(e.sku) # {})
                <=> (e.latest_price # Fin(0) /\ Len(DefinedChanges(e)) >= 1)

\* C13: with at least 3 defined changes the forecasted change is the average
\* of the last min(8, n) changes under weights that strictly increase toward
\* the most recent change, divided by their sum; older changes do not appear.
C13_WeightedRecentWindow ==
    \A e \in TrendEntries : \A f \in ForecastsOfSku(e.sku) :
        LET window == WindowOf(DefinedChanges(e))
            weights == exp_linspace(Len(window))
        IN  Len(DefinedChanges(e)) >= 3 =>
               /\ Len(weights) = Len(window)
               /\ \A i, j \in DOMAIN weights : i < j => weights[i] < weights[j]
               /\ f.forecasted_change_pct =
                     round_half_up(SumSeq([i \in DOMAIN window |-> weights[i] * window[i]]),
                                   SumSeq(weights))

\* Nine changes of which the oldest (+1%) differs from the eight of the
\* window (0%): the forecast ignores it
C13_Witness ==
    \E e \in TrendEntries : \E f \in ForecastsOfSku(e.sku) :
        /\ Len(DefinedChanges(e)) = 9
        /\ DefinedChanges(e)[1] = 100
        /\ \A i \in 2..9 : DefinedChanges(e)[i] = 0
        /\ f.forecasted_change_pct = 0

\* C14: with one or two defined changes the forecasted change is the
\* mean_change_pct of the trend statistics, rounded to 2 decimals.
C14_FallbackIsHistoricalMean ==
    \A e \in TrendEntries : \A f \in ForecastsOfSku(e.sku) :
        Len(DefinedChanges(e)) \in 1..2 =>
            /\ e.mean_change_pct # None
            /\ f.forecasted_change_pct = round2(e.mean_change_pct)

\* C15: when the changes of the window all equal c, the forecasted change is
\* c and the forecasted price is latest_price * (1 + c / 100), to the cent.
C15_ConstantWindow ==
    \A e \in TrendEntries : \A f \in ForecastsOfSku(e.sku) :
        LET window == WindowOf(DefinedChanges(e))
        IN  (Len(DefinedChanges(e)) >= 3 /\ \A i \in DOMAIN window : window[i] = window[1]) =>
               /\ f.forecasted_change_pct = window[1]
               /\ f.forecasted_price =
                     e.latest_price.v + round_half_up(e.latest_price.v * window[1], 10000)

\* Nine changes, the oldest 0% and the eight of the window +1%: a price of
\* 10.00 is forecast at 10.10
C15_Witness ==
    \E e \in TrendEntries : \E f \in ForecastsOfSku(e.sku) :
        /\ Len(DefinedChanges(e)) = 9
        /\ DefinedChanges(e)[1] = 0
        /\ \A i \in 2..9 : DefinedChanges(e)[i] = 100
        /\ e.latest_price = Fin(1000)
        /\ f.forecasted_change_pct = 100
        /\ f.forecasted_price = 1010

(***************************************************************************)
(* Claims about the anomaly ranking                                        *)
(***************************************************************************)
TopChanges ==
    IF anomaly_result.kind = "ok" THEN anomaly_result.top_10_notable_changes ELSE <<>>

\* The z-score of a forecast whose deviation is positive, in hundredths
ZScoreOf(f) ==
    round_half_up(Abs(f.forecasted_change_pct - f.historical_mean_change_pct) * 100,
                  f.historical_std_change_pct)

EligibleForecasts == {f \in ForecastEntries : f.historical_std_change_pct > 0}

Returned(sku) == \E i \in DOMAIN TopChanges : TopChanges[i].sku = sku

\* C16: the ranking has at most 10 entries and none of a SKU whose
\* historical_std_change_pct is 0.
C16_AtMostTenNoZeroDeviation ==
    anomaly_result.kind = "ok" =>
        /\ Len(TopChanges) <= 10
        /\ \A f \in ForecastEntries : f.historical_std_change_pct = 0 => ~Returned(f.sku)
        /\ \A i \in DOMAIN TopChanges : TopChanges[i].historical_std_change_pct # 0

\* Twelve forecasts, one of them without deviation: ten are returned, the
\* SKU without deviation is not
C16_Witness ==
    /\ anomaly_result.kind = "ok"
    /\ Cardinality(ForecastEntries) = 12
    /\ \E f \in ForecastEntries : f.historical_std_change_pct = 0 /\ ~Returned(f.sku)
    /\ Len(TopChanges) = 10

PositiveDeviation(e) == e.std_change_pct.k = "root" \/ (e.std_change_pct.k = "fin" /\ e.std_change_pct.v > 0)

C18_PositiveDeviationRanked ==
    anomaly_result.kind = "ok" =>
        LET candidates == {e \in TrendEntries :
                              ForecastsOfSku(e.sku) # {} /\ PositiveDeviation(e)}
        IN  /\ anomaly_result.total_anomalies_detected = Cardinality(candidates)
            /\ Cardinality(candidates) <= 10 => \A e \in candidates : Returned(e.sku)

\* C19: a second run over the same forecasts returns the same ranking and the
\* same total, whatever the two thresholds.
C19_ThresholdHasNoEffect ==
    [][(/\ anomaly_result.kind = "ok"
        /\ anomaly_result'.kind = "ok"
        /\ price_forecasts_json' = price_forecasts_json)
       => /\ anomaly_result'.top_10_notable_changes = anomaly_result.top_10_notable_changes
          /\ anomaly_result'.total_anomalies_detected = anomaly_result.total_anomalies_detected]_vars

\* A run with threshold 1.5 that returns a SKU at one deviation
C19_Witness ==
    /\ anomaly_result.kind = "ok"
    /\ anomaly_result.threshold_used = 150
    /\ \E i \in DOMAIN TopChanges : TopChanges[i].z_score = 100

\* The forecasts of the artifact listed by ascending SKU
RECURSIVE BySku(_)
BySku(forecasts) ==
    IF forecasts = {} THEN <<>>
    ELSE LET first == CHOOSE f \in forecasts : \A g \in forecasts : f.sku <= g.sku
         IN  <<first>> \o BySku(forecasts \ {first})

\* C20: the ranking does not depend on the order in which the forecasts are
\* listed: it is the ranking of the same forecasts listed by ascending SKU.
C20_OrderIndependentRanking ==
    anomaly_result.kind = "ok" =>
        TopChanges =
            detect([price_forecasts_json EXCEPT !.forecasts = BySku(ForecastEntries)],
                   anomaly_result.threshold_used).top_10_notable_changes

(***************************************************************************)
(* Claims about the Excel tools                                            *)
(***************************************************************************)
\* A record all of whose fields are empty
IsEmptyRecord(record) == \A key \in DOMAIN record : record[key].k \in {"null", "nan"}

CleanerInputRecords ==
    IF "records" \in DOMAIN cleaner_data THEN cleaner_data.records ELSE <<>>

\* C25: the cleaned records are the input records that are not entirely
\* empty, in input order, each one normalized; none of them is entirely
\* empty and total_cleaned is their number.
C25_EmptyRecordsDropped ==
    cleaner_result.kind = "ok" =>
        LET kept == SelectSeq(CleanerInputRecords, LAMBDA r : ~IsEmptyRecord(r))
        IN  /\ cleaner_result.cleaned_records = [i \in DOMAIN kept |-> clean_record(kept[i])]
            /\ cleaner_result.total_cleaned = Len(kept)
            /\ \A i \in DOMAIN cleaner_result.cleaned_records :
                  ~IsEmptyRecord(cleaner_result.cleaned_records[i])

\* The list of the categorizer a category of the calculator names
CategoryListOf(suggested_category) ==
    CASE suggested_category = "Begin LTO" -> "begin_lto"
      [] suggested_category = "End LTO" -> "end_lto"
      [] suggested_category = "Permanent Change" -> "permanent_changes"
      [] OTHER -> "none"

\* C27: for prices that are not negative, the category the calculator
\* suggests is the list the categorizer puts a Retail Price record with the
\* same prices in.
C27_CalculatorAgreesWithCategorizer ==
    calc_result.kind = "ok" =>
        \A type_of_sale \in {RETAIL_EN_DASH, RETAIL_HYPHEN} :
            CategoryListOf(calc_result.suggested_category) =
                category_of(type_of_sale, calc_result.old_price, calc_result.new_price)

\* The calculator called at a ratio of exactly 96%
C27_Witness ==
    /\ calc_result.kind = "ok"
    /\ calc_result.old_price = 25
    /\ calc_result.new_price = 24
    /\ calc_result.suggested_category = "Permanent Change"
    /\ category_of(RETAIL_HYPHEN, 25, 24) = "permanent_changes"

\* C29: the calculator never suggests "No Change" and is_significant is
\* always true; a Retail Price record with equal positive prices is a
\* permanent change for both tools, and the categorizer has no list for
\* unchanged prices.
C29_NoChangeUnreachable ==
    calc_result.kind = "ok" =>
        /\ calc_result.suggested_category # "No Change"
        /\ calc_result.is_significant
        /\ category_of(RETAIL_HYPHEN, calc_result.old_price, calc_result.new_price)
               \in {"begin_lto", "end_lto", "permanent_changes"}
        /\ (calc_result.old_price = calc_result.new_price /\ calc_result.old_price > 0) =>
              /\ calc_result.suggested_category = "Permanent Change"
              /\ category_of(RETAIL_HYPHEN, calc_result.old_price, calc_result.new_price)
                     = "permanent_changes"

\* The calculator called with old and new price 0.25
C29_Witness ==
    /\ calc_result.kind = "ok"
    /\ calc_result.old_price = 25
    /\ calc_result.new_price = 25
    /\ calc_result.change_amount = 0
    /\ calc_result.suggested_category = "Permanent Change"
    /\ calc_result.is_significant

(***************************************************************************)
(* Claims about RevManFlow                                                 *)
(***************************************************************************)
FlowMethods ==
    <<"trigger_flow", "excel_processing_step", "email_generation_step",
      "validation_step", "save_email_output">>

FilesWritten == email_txt # NoFile \/ metadata_json # NoFile \/ validation_json # NoFile

\* C26: the methods return in the order of the flow; the files are written
\* and a FlowOutput is returned only when all five have returned and no
\* exception was raised; never after a validation with a critical issue, so
\* the status returned is not FAIL and validation_passed is written true.
C26_OutputOnlyAfterValidation ==
    /\ \A i \in DOMAIN method_outputs : method_outputs[i] = FlowMethods[i]
    /\ (FilesWritten \/ flow_output # NoResult) =>
          /\ method_outputs = FlowMethods
          /\ ~flow_failed
          /\ validation_report.critical_issues = <<>>
          /\ TITLE \in email_content /\ email_content \cap brewers # {}
          /\ email_txt # NoFile /\ metadata_json # NoFile /\ validation_json # NoFile
          /\ flow_output # NoResult
          /\ flow_output.validation_status # "FAIL"
          /\ metadata_json.validation_passed = TRUE
          /\ validation_json.report.validation_status # "FAIL"
    /\ (validation_report # NoResult /\ validation_report.critical_issues # <<>>) =>
          /\ flow_failed
          /\ ~FilesWritten
          /\ flow_output = NoResult

\* A flow that saved an email without change type sections: PASS WITH WARNINGS
C26_Witness ==
    /\ method_outputs = FlowMethods
    /\ email_content = {TITLE, "LABATT"}
    /\ flow_output # NoResult
    /\ flow_output.validation_status = "PASS WITH WARNINGS"
    /\ metadata_json # NoFile
    /\ metadata_json.validation_passed = TRUE

(***************************************************************************)
(* Claims about the runs                                                   *)
(***************************************************************************)
\* An artifact that is a JSON object with the map its reader asks for
WellFormed(file, map) == file # NoFile /\ file.kind = "ok" /\ map \in DOMAIN file

\* C21: a forecast over an absent or not well-formed trend artifact, and a
\* ranking over an absent or not well-formed forecast artifact, return an
\* error.
C21_FailsWithoutUpstream ==
    /\ (forecast_result # NoResult
           /\ ~WellFormed(historical_analysis_results_json, "sku_analysis"))
          => forecast_result.kind = "error"
    /\ (anomaly_result # NoResult /\ ~WellFormed(price_forecasts_json, "forecasts"))
          => anomaly_result.kind = "error"

\* C22: in a run whose trend analysis failed, neither the forecast nor the
\* ranking succeeds.
C22_NoResultFromEarlierRun ==
    hist_result.kind = "error" =>
        /\ forecast_result.kind # "ok"
        /\ anomaly_result.kind # "ok"

\* C23: a call of a stage that returns an error leaves the artifact of the
\* stage as it was.
C23_FailureWritesNothing ==
    [][/\ (hist_result = NoResult /\ hist_result'.kind = "error")
             => UNCHANGED historical_analysis_results_json
       /\ (forecast_result = NoResult /\ forecast_result'.kind = "error")
             => UNCHANGED price_forecasts_json
       /\ (anomaly_result = NoResult /\ anomaly_result'.kind = "error")
             => UNCHANGED pricing_anomalies_json
       /\ (cat_result = NoResult /\ cat_result'.kind = "error")
             => UNCHANGED price_categories_json]_vars

\* C24: the analysis and the categorization of a file that lacks a required
\* column return an error that names the missing columns and the columns
\* found, and leave their artifact as it was.
C24_MissingColumnAborts ==
    [][/\ (hist_result = NoResult /\ hist_result' # NoResult
              /\ hist_file.exists /\ hist_required_cols \ hist_file.columns # {})
             => /\ hist_result'.kind = "error"
                /\ hist_result'.error = "Missing required columns"
                /\ hist_result'.missing = hist_required_cols \ hist_file.columns
                /\ hist_result'.available_columns = hist_file.columns
                /\ UNCHANGED historical_analysis_results_json
       /\ (cat_result = NoResult /\ cat_result' # NoResult
              /\ price_file.exists /\ cat_required_cols \ price_file.columns # {})
             => /\ cat_result'.kind = "error"
                /\ cat_result'.error = "Missing required columns"
                /\ cat_result'.missing = cat_required_cols \ price_file.columns
                /\ cat_result'.available_columns = price_file.columns
                /\ UNCHANGED price_categories_json]_vars

\* A run whose files both lack a column, after a run that wrote both
\* artifacts: the errors name Price and Old Price, the artifacts are there
C24_Witness ==
    /\ hist_result.kind = "error"
    /\ hist_result.error = "Missing required columns"
    /\ hist_result.missing = {"Price"}
    /\ cat_result.kind = "error"
    /\ cat_result.error = "Missing required columns"
    /\ cat_result.missing = {"Old Price"}
    /\ historical_analysis_results_json # NoFile
    /\ historical_analysis_results_json.kind = "ok"
    /\ price_categories_json # NoFile

\* C28: a SKU of the trend statistics with fewer than 3 changes has no
\* positive z_score: with 1 change its deviation is 0.0 and it is not ranked,
\* with 2 changes its forecast is its historical mean.
C28_FewChangesNeverNotable ==
    \A e \in TrendEntries :
        e.total_changes < 3 =>
            /\ e.total_changes = 1 => (e.std_change_pct = Fin(0) /\ ~Returned(e.sku))
            /\ \A f \in ForecastsOfSku(e.sku) :
                  f.forecasted_change_pct = f.historical_mean_change_pct
            /\ \A i \in DOMAIN TopChanges :
                  TopChanges[i].sku = e.sku => TopChanges[i].z_score = 0

\* A SKU with the two changes 0% and +1%: it is ranked with z_score 0
C28_Witness ==
    \E e \in TrendEntries :
        /\ e.all_changes = <<Fin(0), Fin(100)>>
        /\ \E i \in DOMAIN TopChanges :
              /\ TopChanges[i].sku = e.sku
              /\ TopChanges[i].historical_std_change_pct > 0
              /\ TopChanges[i].z_score = 0

\* C30: a call of a stage changes no artifact but its own.
C30_OnlyOwnArtifact ==
    [][/\ (hist_result = NoResult /\ hist_result' # NoResult)
             => UNCHANGED <<price_forecasts_json, pricing_anomalies_json,
                            price_categories_json>>
       /\ (forecast_result = NoResult /\ forecast_result' # NoResult)
             => UNCHANGED <<historical_analysis_results_json, pricing_anomalies_json,
                            price_categories_json>>
       /\ (anomaly_result = NoResult /\ anomaly_result' # NoResult)
             => UNCHANGED <<historical_analysis_results_json, price_forecasts_json,
                            price_categories_json>>
       /\ (cat_result = NoResult /\ cat_result' # NoResult)
             => UNCHANGED <<historical_analysis_results_json, price_forecasts_json,
                            pricing_anomalies_json>>]_vars

\* A run in which the forecast failed and the ranking succeeded over the
\* forecasts of an earlier run, all four artifacts being there
C30_Witness ==
    /\ forecast_result.kind = "error"
    /\ anomaly_result.kind = "ok"
    /\ cat_result.kind = "ok"
    /\ historical_analysis_results_json = Truncated
    /\ price_forecasts_json # NoFile
    /\ pricing_anomalies_json # NoFile
    /\ price_categories_json # NoFile

====
